---- MODULE Spec2Model ----
(***************************************************************************)
(* aiotradier: the request executor TradierAPIAdapter._api_request, the    *)
(* api_get_* operations that call it and record the decoded response in    *)
(* _api_raw_data, and the query parameters each operation builds.          *)
(*                                                                         *)
(* Spec       : calls of the operations on one adapter, interleaved at     *)
(*              the awaits of _api_request (the request itself, and the    *)
(*              exit of the try block where an ephemeral session closes).  *)
(* SpecParams : the request (path and query parameters) each operation     *)
(*              hands to _api_request, for arguments drawn from small sets.*)
(***************************************************************************)
EXTENDS Integers, Sequences, FiniteSets, TLC

VARIABLES
    aiohttp_session,  \* self.aiohttp_session: 0 for None, else a session id
    sessions,         \* every ClientSession there is: who made it, close() calls
    calls,            \* the operation calls made so far, in call order
    completed,        \* the ids of the finished calls, in completion order
    _api_raw_data,    \* self._api_raw_data: cache key -> decoded document
    call_args,        \* SpecParams: the arguments of the last operation call
    request           \* SpecParams: what that call handed to _api_request

vars == <<aiohttp_session, sessions, calls, completed, _api_raw_data,
          call_args, request>>

-----------------------------------------------------------------------------
(* Bounds *)

MaxCalls == 2

-----------------------------------------------------------------------------
(* const.py *)

API_URL == "https://api.tradier.com"
API_V1 == "v1"
API_USER == "user"
API_PROFILE == "profile"
API_ACCOUNTS == "accounts"
API_BALANCES == "balances"
API_POSITIONS == "positions"
API_MARKETS == "markets"
API_QUOTES == "quotes"
API_OPTIONS == "options"
API_EXPIRATIONS == "expirations"
API_STRIKES == "strikes"
API_CHAINS == "chains"
API_HISTORY == "history"
API_CLOCK == "clock"

HTTP_CALL_TIMEOUT == 45

RAW_USER_PROFILE == "user_profile"
RAW_BALANCES == "balances"
RAW_POSITIONS == "positions"
RAW_QUOTES == "quotes"
RAW_EXPIRATIONS == "expirations"
RAW_CHAINS == "chains"
RAW_STRIKES == "strikes"
RAW_ACCOUNT_HISTORY == "account_history"
RAW_HISTORICAL_QUOTES == "historical_quotes"
RAW_CLOCK == "clock"

-----------------------------------------------------------------------------
(* exceptions.py, with the Python and aiohttp classes the executor meets *)

None == 0

ExceptionBase(cls) ==
    CASE cls = "APIError" -> "TradierError"
      [] cls = "LoginError" -> "TradierError"
      [] cls = "AuthError" -> "LoginError"
      [] cls = "TradierError" -> "Exception"
      [] cls = "ClientConnectorError" -> "Exception"
      [] cls = "ClientResponseError" -> "Exception"
      [] cls = "ServerDisconnectedError" -> "Exception"
      [] cls = "TimeoutError" -> "Exception"
      [] cls = "JSONDecodeError" -> "Exception"
      [] cls = "Exception" -> "BaseException"
      [] cls = "CancelledError" -> "BaseException"
      [] OTHER -> "object"

RECURSIVE IsSubclass(_, _)
IsSubclass(cls, base) ==
    IF cls = base THEN TRUE
    ELSE IF cls = "object" THEN FALSE
    ELSE IsSubclass(ExceptionBase(cls), base)

-----------------------------------------------------------------------------
(* The operations and the cache key each one writes *)

Operations ==
    {"api_get_user_profile", "api_get_balances", "api_get_positions",
     "api_get_account_history", "api_get_quotes", "api_get_option_expirations",
     "api_get_option_strikes", "api_get_option_chains",
     "api_get_historical_quotes", "api_get_clock"}

\* RawKey with the key of api_get_balances pasted into api_get_positions.
RawKey_Pasted(op) ==
    CASE op = "api_get_user_profile" -> RAW_USER_PROFILE
      [] op = "api_get_balances" -> RAW_BALANCES
      [] op = "api_get_positions" -> RAW_BALANCES
      [] op = "api_get_account_history" -> RAW_ACCOUNT_HISTORY
      [] op = "api_get_quotes" -> RAW_QUOTES
      [] op = "api_get_option_expirations" -> RAW_EXPIRATIONS
      [] op = "api_get_option_strikes" -> RAW_STRIKES
      [] op = "api_get_option_chains" -> RAW_CHAINS
      [] op = "api_get_historical_quotes" -> RAW_HISTORICAL_QUOTES
      [] op = "api_get_clock" -> RAW_CLOCK

RawKey(op) ==
    CASE op = "api_get_user_profile" -> RAW_USER_PROFILE
      [] op = "api_get_balances" -> RAW_BALANCES
      [] op = "api_get_positions" -> RAW_POSITIONS
      [] op = "api_get_account_history" -> RAW_ACCOUNT_HISTORY
      [] op = "api_get_quotes" -> RAW_QUOTES
      [] op = "api_get_option_expirations" -> RAW_EXPIRATIONS
      [] op = "api_get_option_strikes" -> RAW_STRIKES
      [] op = "api_get_option_chains" -> RAW_CHAINS
      [] op = "api_get_historical_quotes" -> RAW_HISTORICAL_QUOTES
      [] op = "api_get_clock" -> RAW_CLOCK

-----------------------------------------------------------------------------
(* The server and the transport (aiohttp), as far as the executor sees them *)

\* Documents the server may hold, and the body text of each.
Documents == {[symbol |-> "AAPL", last |-> 150], [symbol |-> "M", last |-> 20]}

NoDocument == [symbol |-> "", last |-> 0]

Dumps(doc) ==
    "{\"quotes\":{\"quote\":{\"symbol\":\"" \o doc.symbol \o "\",\"last\":"
        \o ToString(doc.last) \o "}}}"

\* Bodies that are not JSON: an HTML error page, an empty body.
MalformedBodies == {"<html>Bad Gateway</html>", ""}

Bodies == {Dumps(d) : d \in Documents} \cup MalformedBodies

\* What one request meets: how long it takes, whether a connection is made
\* and kept, and the status and body the server answers with.
Answers ==
    {[elapsed |-> HTTP_CALL_TIMEOUT + 1, net |-> "connected", status |-> 200,
      body |-> ""]}
    \cup {[elapsed |-> 1, net |-> n, status |-> 0, body |-> ""] :
            n \in {"refused", "disconnected"}}
    \cup {[elapsed |-> e, net |-> "connected", status |-> s, body |-> ""] :
            e \in {1, HTTP_CALL_TIMEOUT}, s \in {400, 401, 404, 500}}
    \cup {[elapsed |-> 1, net |-> "connected", status |-> 200, body |-> b] :
            b \in Bodies}

\* aiohttp_session.request(..., raise_for_status=True, timeout=HTTP_CALL_TIMEOUT)
\* followed by resp.text(): the exception it raises ("none" when it returns),
\* with the status and the text read.  Redirects are followed by the transport,
\* so the final status is 2xx or an error status.
SessionRequest(answer) ==
    IF answer.elapsed > HTTP_CALL_TIMEOUT
    THEN [exc |-> "TimeoutError", status |-> 0, text |-> ""]
    ELSE IF answer.net = "refused"
    THEN [exc |-> "ClientConnectorError", status |-> 0, text |-> ""]
    ELSE IF answer.net = "disconnected"
    THEN [exc |-> "ServerDisconnectedError", status |-> 0, text |-> ""]
    ELSE IF answer.status >= 400
    THEN [exc |-> "ClientResponseError", status |-> answer.status, text |-> ""]
    ELSE [exc |-> "none", status |-> answer.status, text |-> answer.body]

\* json.loads(resp_text): the document, or JSONDecodeError.
JsonLoads(text) ==
    CASE text = "{\"quotes\":{\"quote\":{\"symbol\":\"AAPL\",\"last\":150}}}" ->
            [exc |-> "none", doc |-> [symbol |-> "AAPL", last |-> 150]]
      [] text = "{\"quotes\":{\"quote\":{\"symbol\":\"M\",\"last\":20}}}" ->
            [exc |-> "none", doc |-> [symbol |-> "M", last |-> 20]]
      [] OTHER -> [exc |-> "JSONDecodeError", doc |-> NoDocument]

-----------------------------------------------------------------------------
(* TradierAPIAdapter._api_request *)

\* Lines 71-74: the session the request goes out on; a new one when the
\* adapter holds none.
NewSession == [by |-> "adapter", closes |-> 0]

AcquireSession(self_session, all) ==
    IF self_session = None
    THEN [all |-> Append(all, NewSession), id |-> Len(all) + 1]
    ELSE [all |-> all, id |-> self_session]

\* FinallyClose without the close.
FinallyClose_Skipped(self_session, all, id) == all

\* FinallyClose without the test of self.aiohttp_session.
FinallyClose_Always(self_session, all, id) ==
    [all EXCEPT ![id].closes = @ + 1]

\* Lines 103-105: the finally block.
FinallyClose(self_session, all, id) ==
    IF self_session = None
    THEN [all EXCEPT ![id].closes = @ + 1]
    ELSE all

\* ExceptClauses with 401 handled like 400.
ExceptClauses_401As400(exc, status) ==
    IF exc = "ClientConnectorError" THEN "TradierError"
    ELSE IF exc = "ClientResponseError"
    THEN IF status \in {400, 401} THEN "APIError" ELSE "TradierError"
    ELSE exc

\* Lines 92-101: the except clauses; what leaves the try block when the
\* request raised exc.
ExceptClauses(exc, status) ==
    IF exc = "ClientConnectorError" THEN "TradierError"
    ELSE IF exc = "ClientResponseError"
    THEN IF status = 400 THEN "APIError"
         ELSE IF status = 401 THEN "AuthError"
         ELSE "TradierError"
    ELSE exc

\* Lines 107-114: decoding the text after the try block.
DecodeResponse(text) ==
    IF JsonLoads(text).exc = "JSONDecodeError"
    THEN [raised |-> "TradierError", res |-> NoDocument]
    ELSE [raised |-> "none", res |-> JsonLoads(text).doc]

\* The whole of lines 92-114: what _api_request raises or returns.
ApiRequestResult(exc, status, text) ==
    IF exc # "none"
    THEN [raised |-> ExceptClauses(exc, status), res |-> NoDocument]
    ELSE DecodeResponse(text)

-----------------------------------------------------------------------------
(* The api_get_* operations: the call of _api_request and the cache write *)

\* StoreRaw as self._api_raw_data = {RAW_...: res}.
StoreRaw_Replace(raw, op, res) == [k \in {RawKey(op)} |-> res]

\* StoreRaw as self._api_raw_data.setdefault(RAW_..., res).
StoreRaw_SetDefault(raw, op, res) ==
    [k \in DOMAIN raw \cup {RawKey(op)} |->
        IF k \in DOMAIN raw THEN raw[k] ELSE res]

\* self._api_raw_data[RAW_...] = res
StoreRaw(raw, op, res) ==
    [k \in DOMAIN raw \cup {RawKey(op)} |->
        IF k = RawKey(op) THEN res ELSE raw[k]]

\* AfterRequest with the cache write done whether or not the await raised.
AfterRequest_Always(raw, op, result) == StoreRaw(raw, op, result.res)

\* The statement after "res = await self._api_request(...)": reached only
\* when the await returned.
AfterRequest(raw, op, result) ==
    IF result.raised = "none" THEN StoreRaw(raw, op, result.res) ELSE raw

\* The tag of a call's arguments (a symbol, an account).
Arguments == {"AAPL", "M"}

NoRequest == [method |-> "", url |-> "", params |-> <<>>]

-----------------------------------------------------------------------------
(* The request each operation builds *)

\* Python values: a dict value is a str or a tuple of one str; None is the
\* falsy value of the argument's type ("" for a str, 0 for an int, NoDate).
Str(s) == <<"str", s>>
Tuple1(s) == <<"tuple", s>>

NoDate == [year |-> 0, month |-> 0, day |-> 0]
Dates == {[year |-> 2024, month |-> 6, day |-> 21],
          [year |-> 2024, month |-> 1, day |-> 9]}

\* f"{flag}" of a bool.
FormatBool(b) == IF b THEN "True" ELSE "False"

\* %m and %d: two digits.
TwoDigits(n) == IF n < 10 THEN "0" \o ToString(n) ELSE ToString(n)

\* d.strftime("%Y-%m-%d"), for years of four digits.
Strftime(d) ==
    ToString(d.year) \o "-" \o TwoDigits(d.month) \o "-" \o TwoDigits(d.day)

\* ",".join(symbols)
RECURSIVE Join(_)
Join(symbols) ==
    IF Len(symbols) = 0 THEN ""
    ELSE IF Len(symbols) = 1 THEN symbols[1]
    ELSE symbols[1] \o "," \o Join(Tail(symbols))

\* params[key] = value
SetItem(params, key, value) ==
    [k \in DOMAIN params \cup {key} |-> IF k = key THEN value ELSE params[k]]

\* The URL _api_request asks for: f"{API_URL}/{API_V1}/{path}".
Url(path) == API_URL \o "/" \o API_V1 \o "/" \o path

GetRequest(path, params) == [method |-> "GET", url |-> Url(path), params |-> params]

user_profile_request == GetRequest(API_USER \o "/" \o API_PROFILE, <<>>)

balances_request(account_id) ==
    GetRequest(API_ACCOUNTS \o "/" \o account_id \o "/" \o API_BALANCES, <<>>)

positions_request(account_id) ==
    GetRequest(API_ACCOUNTS \o "/" \o account_id \o "/" \o API_POSITIONS, <<>>)

account_history_params(account_id, page, limit, type_, start, end, symbol, exact_match) ==
    LET p0 == SetItem(<<>>, "account_id", Str(account_id))
        p1 == IF page # 0 THEN SetItem(p0, "page", Str("f{page}")) ELSE p0
        p2 == IF limit # 0 THEN SetItem(p1, "limit", Str(ToString(limit))) ELSE p1
        p3 == IF type_ # "" THEN SetItem(p2, "type_", Str(type_)) ELSE p2
        p4 == IF start # NoDate THEN SetItem(p3, "start", Str(Strftime(start))) ELSE p3
        p5 == IF end # NoDate THEN SetItem(p4, "end", Tuple1(Strftime(end))) ELSE p4
        p6 == IF symbol # "" THEN SetItem(p5, "symbol", Str(symbol)) ELSE p5
    IN  IF exact_match
        THEN SetItem(p6, "exact_match", Str(FormatBool(exact_match)))
        ELSE p6

quotes_params(symbols, greeks) ==
    SetItem(SetItem(<<>>, "symbols", Str(Join(symbols))),
            "greeks", Str(FormatBool(greeks)))

option_expirations_params(symbol, include_all_roots, strikes, contract_size, expiration_type) ==
    LET p1 == SetItem(<<>>, "symbol", Str(symbol))
        p2 == SetItem(p1, "includeAllRoots", Str(FormatBool(include_all_roots)))
        p3 == SetItem(p2, "strikes", Str(FormatBool(strikes)))
        p4 == SetItem(p3, "contractSize", Str(FormatBool(contract_size)))
    IN  SetItem(p4, "expirationType", Str(FormatBool(expiration_type)))

option_strikes_params(symbol, expiration) ==
    SetItem(SetItem(<<>>, "symbol", Str(symbol)),
            "expiration", Str(Strftime(expiration)))

option_chains_params(symbol, expiration, greeks) ==
    SetItem(SetItem(SetItem(<<>>, "symbol", Str(symbol)),
                    "expiration", Str(Strftime(expiration))),
            "greeks", Str(FormatBool(greeks)))

historical_quotes_params(symbol, interval, start, end, session_filter) ==
    LET p0 == SetItem(<<>>, "symbol", Str(symbol))
        p1 == IF interval # "" THEN SetItem(p0, "interval", Str(interval)) ELSE p0
        p2 == IF start # NoDate THEN SetItem(p1, "start", Str(Strftime(start))) ELSE p1
        p3 == IF end # NoDate THEN SetItem(p2, "end", Str(Strftime(end))) ELSE p2
    IN  IF session_filter # ""
        THEN SetItem(p3, "session_filter", Str(session_filter))
        ELSE p3

clock_params(delayed) == SetItem(<<>>, "delayed", Str(FormatBool(delayed)))

\* The arguments of a call, every parameter an operation may take.
NoArgs ==
    [op |-> "", account_id |-> "", page |-> 0, limit |-> 0, type_ |-> "",
     start |-> NoDate, end |-> NoDate, expiration |-> NoDate, symbol |-> "",
     symbols |-> <<>>, interval |-> "", session_filter |-> "",
     flags |-> {}]

-----------------------------------------------------------------------------
(* Spec: calls of the operations, interleaved *)

Init ==
    /\ aiohttp_session \in {None, 1}
    /\ sessions = IF aiohttp_session = None THEN <<>>
                  ELSE <<[by |-> "caller", closes |-> 0]>>
    /\ calls = <<>>
    /\ completed = <<>>
    /\ _api_raw_data = <<>>
    /\ call_args = NoArgs
    /\ request = NoRequest

\* A caller calls an operation: the code up to the await of the request.
ApiGet(op, arg) ==
    /\ Len(calls) < MaxCalls
    /\ LET s == AcquireSession(aiohttp_session, sessions) IN
        /\ sessions' = s.all
        /\ calls' = Append(calls,
              [op |-> op, arg |-> arg, pc |-> "request", session |-> s.id,
               started |-> Len(completed), cancelled |-> FALSE,
               exc |-> "none", status |-> 0, text |-> "",
               raised |-> "none", res |-> NoDocument])
    /\ UNCHANGED <<aiohttp_session, completed, _api_raw_data, call_args, request>>

\* The request of call c ends: the transport raises, or the text is read.
Respond(c, answer) ==
    /\ calls[c].pc = "request"
    /\ LET r == SessionRequest(answer) IN
        calls' = [calls EXCEPT ![c].pc = "finally", ![c].exc = r.exc,
                               ![c].status = r.status, ![c].text = r.text]
    /\ UNCHANGED <<aiohttp_session, sessions, completed, _api_raw_data,
                   call_args, request>>

\* The caller cancels the task of call c while it awaits the request
\* (CancelledError is raised at the await, inside the try block).
Cancel(c) ==
    /\ calls[c].pc = "request"
    /\ calls' = [calls EXCEPT ![c].pc = "finally", ![c].exc = "CancelledError",
                              ![c].cancelled = TRUE]
    /\ UNCHANGED <<aiohttp_session, sessions, completed, _api_raw_data,
                   call_args, request>>

\* Call c leaves the try block: the finally block, then the decoding, the
\* cache write and the return (or the raise), with no await in between.
Finish(c) ==
    /\ calls[c].pc = "finally"
    /\ sessions' = FinallyClose(aiohttp_session, sessions, calls[c].session)
    /\ LET result == ApiRequestResult(calls[c].exc, calls[c].status, calls[c].text) IN
        /\ calls' = [calls EXCEPT ![c].pc = "done", ![c].raised = result.raised,
                                  ![c].res = result.res]
        /\ _api_raw_data' = AfterRequest(_api_raw_data, calls[c].op, result)
    /\ completed' = Append(completed, c)
    /\ UNCHANGED <<aiohttp_session, call_args, request>>

Next ==
    \/ \E op \in Operations, arg \in Arguments : ApiGet(op, arg)
    \/ \E c \in DOMAIN calls, answer \in Answers : Respond(c, answer)
    \/ \E c \in DOMAIN calls : Cancel(c)
    \/ \E c \in DOMAIN calls : Finish(c)

Spec == Init /\ [][Next]_vars

-----------------------------------------------------------------------------
(* SpecParams: what each operation hands to _api_request *)

Accounts == {"VA000001"}
Symbols == {"AAPL", "M"}
SymbolLists == {<<"AAPL">>, <<"AAPL", "M">>}
Flags(names) == SUBSET names

adapter_vars == <<aiohttp_session, sessions, calls, completed, _api_raw_data>>

api_get_user_profile ==
    /\ call_args' = [NoArgs EXCEPT !.op = "api_get_user_profile"]
    /\ request' = user_profile_request
    /\ UNCHANGED adapter_vars

api_get_balances(account_id) ==
    /\ call_args' = [NoArgs EXCEPT !.op = "api_get_balances", !.account_id = account_id]
    /\ request' = balances_request(account_id)
    /\ UNCHANGED adapter_vars

api_get_positions(account_id) ==
    /\ call_args' = [NoArgs EXCEPT !.op = "api_get_positions", !.account_id = account_id]
    /\ request' = positions_request(account_id)
    /\ UNCHANGED adapter_vars

api_get_account_history(account_id, page, limit, type_, start, end, symbol, exact_match) ==
    /\ call_args' = [NoArgs EXCEPT !.op = "api_get_account_history",
                          !.account_id = account_id, !.page = page,
                          !.limit = limit, !.type_ = type_, !.start = start,
                          !.end = end, !.symbol = symbol,
                          !.flags = IF exact_match THEN {"exact_match"} ELSE {}]
    /\ request' = GetRequest(API_ACCOUNTS \o "/" \o account_id \o "/" \o API_HISTORY,
                      account_history_params(account_id, page, limit, type_,
                                             start, end, symbol, exact_match))
    /\ UNCHANGED adapter_vars

api_get_quotes(symbols, greeks) ==
    /\ call_args' = [NoArgs EXCEPT !.op = "api_get_quotes", !.symbols = symbols,
                          !.flags = IF greeks THEN {"greeks"} ELSE {}]
    /\ request' = GetRequest(API_MARKETS \o "/" \o API_QUOTES,
                      quotes_params(symbols, greeks))
    /\ UNCHANGED adapter_vars

api_get_option_expirations(symbol, flags) ==
    /\ call_args' = [NoArgs EXCEPT !.op = "api_get_option_expirations",
                          !.symbol = symbol, !.flags = flags]
    /\ request' = GetRequest(API_MARKETS \o "/" \o API_OPTIONS \o "/" \o API_EXPIRATIONS,
                      option_expirations_params(symbol,
                          "include_all_roots" \in flags, "strikes" \in flags,
                          "contract_size" \in flags, "expiration_type" \in flags))
    /\ UNCHANGED adapter_vars

api_get_option_strikes(symbol, expiration) ==
    /\ call_args' = [NoArgs EXCEPT !.op = "api_get_option_strikes", !.symbol = symbol,
                          !.expiration = expiration]
    /\ request' = GetRequest(API_MARKETS \o "/" \o API_OPTIONS \o "/" \o API_STRIKES,
                      option_strikes_params(symbol, expiration))
    /\ UNCHANGED adapter_vars

api_get_option_chains(symbol, expiration, greeks) ==
    /\ call_args' = [NoArgs EXCEPT !.op = "api_get_option_chains", !.symbol = symbol,
                          !.expiration = expiration,
                          !.flags = IF greeks THEN {"greeks"} ELSE {}]
    /\ request' = GetRequest(API_MARKETS \o "/" \o API_OPTIONS \o "/" \o API_CHAINS,
                      option_chains_params(symbol, expiration, greeks))
    /\ UNCHANGED adapter_vars

api_get_historical_quotes(symbol, interval, start, end, session_filter) ==
    /\ call_args' = [NoArgs EXCEPT !.op = "api_get_historical_quotes", !.symbol = symbol,
                          !.interval = interval, !.start = start, !.end = end,
                          !.session_filter = session_filter]
    /\ request' = GetRequest(API_MARKETS \o "/" \o API_HISTORY,
                      historical_quotes_params(symbol, interval, start, end,
                                               session_filter))
    /\ UNCHANGED adapter_vars

api_get_clock(delayed) ==
    /\ call_args' = [NoArgs EXCEPT !.op = "api_get_clock",
                          !.flags = IF delayed THEN {"delayed"} ELSE {}]
    /\ request' = GetRequest(API_MARKETS \o "/" \o API_CLOCK, clock_params(delayed))
    /\ UNCHANGED adapter_vars

NextParams ==
    \/ api_get_user_profile
    \/ \E account_id \in Accounts : api_get_balances(account_id)
    \/ \E account_id \in Accounts : api_get_positions(account_id)
    \/ \E account_id \in Accounts, page \in {0, 2}, limit \in {0, 10},
          type_ \in {"", "trade"}, start \in Dates \cup {NoDate},
          end \in Dates \cup {NoDate}, symbol \in {"", "AAPL"},
          exact_match \in BOOLEAN :
            api_get_account_history(account_id, page, limit, type_, start, end,
                                    symbol, exact_match)
    \/ \E symbols \in SymbolLists, greeks \in BOOLEAN :
            api_get_quotes(symbols, greeks)
    \/ \E symbol \in Symbols,
          flags \in Flags({"include_all_roots", "strikes", "contract_size",
                           "expiration_type"}) :
            api_get_option_expirations(symbol, flags)
    \/ \E symbol \in Symbols, expiration \in Dates :
            api_get_option_strikes(symbol, expiration)
    \/ \E symbol \in Symbols, expiration \in Dates, greeks \in BOOLEAN :
            api_get_option_chains(symbol, expiration, greeks)
    \/ \E symbol \in Symbols, interval \in {"", "daily"},
          start \in Dates \cup {NoDate}, end \in Dates \cup {NoDate},
          session_filter \in {"", "open"} :
            api_get_historical_quotes(symbol, interval, start, end,
                                      session_filter)
    \/ \E delayed \in BOOLEAN : api_get_clock(delayed)

SpecParams == Init /\ [][NextParams]_vars

-----------------------------------------------------------------------------
(* Vocabulary of the properties *)

Done(c) == calls[c].pc = "done"
Returned(c) == Done(c) /\ calls[c].raised = "none"

Key(c) == RawKey(calls[c].op)

\* The document a body denotes, as the server wrote it.
Denotes(text, doc) == doc \in Documents /\ text = Dumps(doc)

\* The calls of op that returned, in completion order.
ReturnedCallOf(op, c) == calls[c].op = op /\ calls[c].raised = "none"
Successes(op) == SelectSeq(completed, LAMBDA c : ReturnedCallOf(op, c))

\* c1 was called first and had not finished when c2 was called.
Concurrent(c1, c2) ==
    /\ c1 < c2
    /\ \A i \in 1..calls[c2].started : completed[i] # c1

\* c finished before d did.
FinishedBefore(c, d) ==
    \E i, j \in DOMAIN completed : i < j /\ completed[i] = c /\ completed[j] = d

Ephemeral == aiohttp_session = None
Borrowed == aiohttp_session # None

TradierErrorKinds == {"TradierError", "APIError", "LoginError", "AuthError"}

-----------------------------------------------------------------------------
(* C1 *)

\* C1: in every reachable state, for every operation, the cache has no entry
\* under the operation's key when no call of it has returned, and otherwise
\* holds the document returned by the call of it that returned last; the
\* cache has no other keys.  (A failing call is no success, so it changes
\* no entry.)
C1_CacheIsLastSuccess ==
    /\ DOMAIN _api_raw_data \subseteq {RawKey(op) : op \in Operations}
    /\ \A op \in Operations :
        LET s == Successes(op) IN
        IF s = <<>>
        THEN RawKey(op) \notin DOMAIN _api_raw_data
        ELSE /\ RawKey(op) \in DOMAIN _api_raw_data
             /\ _api_raw_data[RawKey(op)] = calls[s[Len(s)]].res

\* A call returned a document, then a later call of the same operation was
\* refused with 401: the cache still holds the first document.
C1_Witness ==
    /\ Len(completed) = 2
    /\ calls[completed[1]].op = calls[completed[2]].op
    /\ Returned(completed[1])
    /\ calls[completed[2]].raised = "AuthError"
    /\ _api_raw_data[Key(completed[1])] = calls[completed[1]].res

-----------------------------------------------------------------------------
(* C2 *)

\* C2: every finished call whose request was answered 400 raised APIError;
\* answered 401, AuthError (a LoginError, not an APIError); answered any
\* other error status, TradierError; whose connection failed, TradierError;
\* whose 2xx body was not JSON, TradierError.
C2_ErrorMapping ==
    /\ IsSubclass("AuthError", "LoginError")
    /\ ~IsSubclass("AuthError", "APIError")
    /\ IsSubclass("APIError", "TradierError")
    /\ \A c \in DOMAIN calls :
        Done(c) =>
          /\ (calls[c].exc = "ClientResponseError" /\ calls[c].status = 400)
                => calls[c].raised = "APIError"
          /\ (calls[c].exc = "ClientResponseError" /\ calls[c].status = 401)
                => calls[c].raised = "AuthError"
          /\ (calls[c].exc = "ClientResponseError"
                /\ calls[c].status \notin {400, 401})
                => calls[c].raised = "TradierError"
          /\ calls[c].exc = "ClientConnectorError"
                => calls[c].raised = "TradierError"
          /\ (calls[c].exc = "none" /\ calls[c].status \in 200..299
                /\ calls[c].text \in MalformedBodies)
                => calls[c].raised = "TradierError"

\* One call was answered 401 and raised AuthError, another was answered 400
\* and raised APIError.
C2_Witness ==
    \E c, d \in DOMAIN calls :
        /\ Done(c) /\ calls[c].status = 401 /\ calls[c].raised = "AuthError"
        /\ Done(d) /\ calls[d].status = 400 /\ calls[d].raised = "APIError"

-----------------------------------------------------------------------------
(* C3 *)

\* C3: whenever a call whose request was answered 2xx with the body of a
\* document finishes, it returns that document, the cache entry under its
\* operation's key is that document, and every other cache entry is as it
\* was before the step.
C3_FinishStep ==
    \A c \in DOMAIN calls : \A doc \in Documents :
        (/\ calls[c].pc = "finally" /\ calls'[c].pc = "done"
         /\ calls[c].exc = "none" /\ calls[c].status \in 200..299
         /\ Denotes(calls[c].text, doc))
        => /\ calls'[c].raised = "none"
           /\ calls'[c].res = doc
           /\ Key(c) \in DOMAIN _api_raw_data'
           /\ _api_raw_data'[Key(c)] = doc
           /\ \A k \in (DOMAIN _api_raw_data \cup DOMAIN _api_raw_data') \ {Key(c)} :
                /\ k \in DOMAIN _api_raw_data
                /\ k \in DOMAIN _api_raw_data'
                /\ _api_raw_data'[k] = _api_raw_data[k]

C3_SuccessStoresDocument == [][C3_FinishStep]_vars

\* api_get_quotes returned the AAPL quote and cached it while the entry of
\* another operation, written before, is still there.
C3_Witness ==
    /\ Len(completed) = 2
    /\ calls[completed[2]].op = "api_get_quotes"
    /\ calls[completed[2]].res = [symbol |-> "AAPL", last |-> 150]
    /\ Returned(completed[1])
    /\ calls[completed[1]].op = "api_get_clock"
    /\ calls[completed[1]].res = [symbol |-> "M", last |-> 20]
    /\ _api_raw_data[RAW_QUOTES] = [symbol |-> "AAPL", last |-> 150]
    /\ _api_raw_data[RAW_CLOCK] = [symbol |-> "M", last |-> 20]

-----------------------------------------------------------------------------
(* C4 *)

\* C4: in an adapter built without a session, every call has a session of
\* its own, made by the adapter; no session is closed more than once; and
\* the session of a finished call has been closed exactly once, whatever
\* way the call ended.
C4_EphemeralClosedOnce ==
    Ephemeral =>
        /\ Len(sessions) = Len(calls)
        /\ \A c, d \in DOMAIN calls :
            /\ calls[c].session \in DOMAIN sessions
            /\ sessions[calls[c].session].by = "adapter"
            /\ (c # d => calls[c].session # calls[d].session)
        /\ \A s \in DOMAIN sessions : sessions[s].closes <= 1
        /\ \A c \in DOMAIN calls :
            Done(c) => sessions[calls[c].session].closes = 1

\* Two overlapping calls without a supplied session have finished, one by
\* a timeout and one by invalid JSON, and both sessions are closed once.
C4_Witness ==
    /\ Ephemeral
    /\ \E c, d \in DOMAIN calls :
        /\ Concurrent(c, d)
        /\ Done(c) /\ calls[c].exc = "TimeoutError"
        /\ Done(d) /\ calls[d].exc = "none" /\ calls[d].raised = "TradierError"
        /\ sessions[calls[c].session].closes = 1
        /\ sessions[calls[d].session].closes = 1

-----------------------------------------------------------------------------
(* C5 *)

\* C5: in an adapter built with a session, that session is the only one
\* there is and close() has never been called on it.
C5_BorrowedNeverClosed ==
    Borrowed =>
        /\ Len(sessions) = 1
        /\ sessions[1].by = "caller"
        /\ sessions[1].closes = 0
        /\ \A c \in DOMAIN calls : calls[c].session = aiohttp_session

\* Two overlapping calls on a supplied session have finished, one refused
\* with 401 and one returning, and the session is open.
C5_Witness ==
    /\ Borrowed
    /\ \E c, d \in DOMAIN calls :
        /\ Concurrent(c, d)
        /\ Done(c) /\ calls[c].raised = "AuthError"
        /\ Returned(d)
    /\ sessions[aiohttp_session].closes = 0

-----------------------------------------------------------------------------
(* C6 *)

\* C6: every finished call whose request exceeded HTTP_CALL_TIMEOUT raised
\* TradierError (or a subclass of it).
C6_TimeoutRaisesTradierError ==
    \A c \in DOMAIN calls :
        (Done(c) /\ calls[c].exc = "TimeoutError")
            => IsSubclass(calls[c].raised, "TradierError")

-----------------------------------------------------------------------------
(* C7 *)

\* C7: every finished call that its caller did not cancel either returned
\* or raised one of TradierError, APIError, LoginError, AuthError.
C7_OnlyTradierErrors ==
    \A c \in DOMAIN calls :
        (Done(c) /\ ~calls[c].cancelled)
            => calls[c].raised \in {"none"} \cup TradierErrorKinds

-----------------------------------------------------------------------------
(* C8 *)

\* No other call of the operation of c has returned.
OnlySuccessOfItsOperation(c) ==
    \A x \in DOMAIN calls \ {c} : ~(calls[x].op = calls[c].op /\ Returned(x))

\* C8: distinct operations have distinct cache keys; and when two
\* overlapping calls of different operations have both finished, in either
\* order, the key of each holds the document that call returned, or is
\* absent when that call failed (no other call of the operation having
\* returned).
C8_DifferentOperationsIndependent ==
    /\ \A op1, op2 \in Operations : op1 # op2 => RawKey(op1) # RawKey(op2)
    /\ \A c1, c2 \in DOMAIN calls :
        (Concurrent(c1, c2) /\ calls[c1].op # calls[c2].op /\ Done(c1) /\ Done(c2))
        => \A c \in {c1, c2} :
            OnlySuccessOfItsOperation(c) =>
                IF Returned(c)
                THEN /\ Key(c) \in DOMAIN _api_raw_data
                     /\ _api_raw_data[Key(c)] = calls[c].res
                ELSE Key(c) \notin DOMAIN _api_raw_data

\* api_get_balances and api_get_positions overlapped, positions finished
\* first, both returned different documents, and each key holds its own.
C8_Witness ==
    \E c1, c2 \in DOMAIN calls :
        /\ Concurrent(c1, c2)
        /\ calls[c1].op = "api_get_balances" /\ calls[c2].op = "api_get_positions"
        /\ Returned(c1) /\ Returned(c2) /\ FinishedBefore(c2, c1)
        /\ calls[c1].res # calls[c2].res
        /\ _api_raw_data[RAW_BALANCES] = calls[c1].res
        /\ _api_raw_data[RAW_POSITIONS] = calls[c2].res

-----------------------------------------------------------------------------
(* C10 *)

\* C10: when two overlapping calls of the same operation with different
\* arguments have both returned, each returned the document of its own
\* response, and (no third call of the operation having returned) the cache
\* entry is the document of the one that finished last.
C10_SameOperationLastWins ==
    \A c1, c2 \in DOMAIN calls :
        (/\ Concurrent(c1, c2)
         /\ calls[c1].op = calls[c2].op /\ calls[c1].arg # calls[c2].arg
         /\ Returned(c1) /\ Returned(c2))
        => /\ \A c \in {c1, c2} : Denotes(calls[c].text, calls[c].res)
           /\ (\A x \in DOMAIN calls \ {c1, c2} :
                    ~(calls[x].op = calls[c1].op /\ Returned(x)))
                => /\ Key(c1) \in DOMAIN _api_raw_data
                   /\ _api_raw_data[Key(c1)] =
                        IF FinishedBefore(c1, c2) THEN calls[c2].res
                        ELSE calls[c1].res

\* Two overlapping api_get_quotes calls for different symbols returned
\* different documents; the one called second finished first, and the cache
\* holds the document of the one called first.
C10_Witness ==
    \E c1, c2 \in DOMAIN calls :
        /\ Concurrent(c1, c2)
        /\ calls[c1].op = "api_get_quotes" /\ calls[c2].op = "api_get_quotes"
        /\ calls[c1].arg # calls[c2].arg
        /\ Returned(c1) /\ Returned(c2) /\ FinishedBefore(c2, c1)
        /\ calls[c1].res # calls[c2].res
        /\ _api_raw_data[RAW_QUOTES] = calls[c1].res

-----------------------------------------------------------------------------
(* C9 *)

\* The text YYYY-MM-DD of a date.
IsoText(d) ==
    CASE d = [year |-> 2024, month |-> 6, day |-> 21] -> "2024-06-21"
      [] d = [year |-> 2024, month |-> 1, day |-> 9] -> "2024-01-09"

\* The parameter name of the request is the single text YYYY-MM-DD of date d.
SentAsIsoText(name, d) ==
    /\ name \in DOMAIN request.params
    /\ request.params[name] = Str(IsoText(d))

DateArguments(op) ==
    CASE op = "api_get_account_history" -> {"start", "end"}
      [] op = "api_get_historical_quotes" -> {"start", "end"}
      [] op = "api_get_option_strikes" -> {"expiration"}
      [] op = "api_get_option_chains" -> {"expiration"}
      [] OTHER -> {}

\* C9: every date argument supplied to the last operation call is in the
\* request under its name as the single text YYYY-MM-DD; and
\* api_get_option_strikes("AAPL", 2024-06-21) sends exactly symbol=AAPL and
\* expiration=2024-06-21.
C9_DatesSentAsIsoText ==
    /\ \A name \in DateArguments(call_args.op) :
        call_args[name] # NoDate => SentAsIsoText(name, call_args[name])
    /\ (/\ call_args.op = "api_get_option_strikes"
        /\ call_args.symbol = "AAPL"
        /\ call_args.expiration = [year |-> 2024, month |-> 6, day |-> 21])
        => request.params = [k \in {"symbol", "expiration"} |->
                IF k = "symbol" THEN Str("AAPL") ELSE Str("2024-06-21")]

====
